---- MODULE Spec2Model ----
(***************************************************************************)
(* MacroMoney: headline -> theme -> severity -> gate -> rebalance.         *)
(*                                                                         *)
(* Four variants of the pipeline live in the repository:                   *)
(*   "v01"    src/macromoney.py            (cluster demo, equal weights)   *)
(*   "v21"    src/unnamed/part_000:1-174   (lexical, fixed threshold)      *)
(*   "v24emb" src/unnamed/part_000:177-469 (embedding, horizon-aware)      *)
(*   "v24lex" src/unnamed/part_000:476-656 (lexical, horizon-aware)        *)
(*                                                                         *)
(* Numbers.  TLA+ has integers only, so every real quantity is held as an  *)
(* exact integer count of a fixed unit:                                    *)
(*   input weights        percent                (st.number_input 0..100)  *)
(*   horizon_years        tenths of a year       (number_input step 0.1)   *)
(*   severity / impact    1/SevUnit              (1/10000 of a point)      *)
(*   similarity           1/100                                            *)
(*   output weights       1/100 percent          (round(x, 2))             *)
(* The floating-point quotient new/total*100 is modelled by the exact      *)
(* rational; round(x, 2) is round-half-even on it.  When the exact value   *)
(* lies on a tie (x.xx5) the float may sit on either side of it, so the    *)
(* direction of such a rounding is a parameter (up) chosen by the caller.  *)
(***************************************************************************)
EXTENDS Integers, Sequences, FiniteSets, TLC

VARIABLES
    variant,          \* which of the four scripts is running
    pc,               \* position of the script run
    initial_weights,  \* the five st.number_input weights (percent)
    horizon_years,    \* investment horizon, tenths of a year
    headline,         \* the text input
    allowed_assets,   \* v01: instruments selected in the sidebar
    sims,             \* v24emb: similarity of the headline to every theme, or Nothing
    event_type,       \* tier ("macro" / "micro" / "irrelevant"), or NoValue
    theme,            \* detected theme / reason / cluster name, or NoValue
    secondary,        \* v24emb: <<secondary theme, secondary score>>, or Nothing
    impact,           \* impact score / severity (1/SevUnit), or NoScore
    passed,           \* the threshold test: "yes", "no", or NoValue
    updated,          \* the rebalanced portfolio, or NoPortfolio
    result_ref,       \* which object the returned mapping is, or NoRef
    fp,               \* how this platform's floats round exact ties
    runs,             \* number of script runs started in this session
    prev              \* outputs of the previous finished run, or Nothing

vars == <<variant, pc, initial_weights, horizon_years, headline, allowed_assets,
          sims, event_type, theme, secondary, impact, passed, updated, result_ref,
          fp, runs, prev>>

----------------------------------------------------------------------------
(* Units and sentinels *)

SevUnit == 100 * 100          \* severity 1.0 is SevUnit

NoValue == "none"
NoScore == 0 - 1
Nothing == << >>
NoPortfolio == << >>
Unset == {"unset"}
NoRef == 0

Assets == <<"Equities", "Bonds", "ETFs", "Crypto", "Commodities">>
AssetSet == {Assets[i] : i \in 1..Len(Assets)}

RECURSIVE SumOver(_, _)
SumOver(f, S) ==
    IF S = {} THEN 0
    ELSE LET a == CHOOSE x \in S : TRUE IN f[a] + SumOver(f, S \ {a})

Min2(a, b) == IF a < b THEN a ELSE b
Max2(a, b) == IF a > b THEN a ELSE b

----------------------------------------------------------------------------
(* Strings: str.lower() and the substring test `w in text` *)

UpperCase == <<"A","B","C","D","E","F","G","H","I","J","K","L","M",
               "N","O","P","Q","R","S","T","U","V","W","X","Y","Z">>
LowerCase == <<"a","b","c","d","e","f","g","h","i","j","k","l","m",
               "n","o","p","q","r","s","t","u","v","w","x","y","z">>

LowerChar(c) ==
    IF \E i \in 1..Len(UpperCase) : UpperCase[i] = c
    THEN LowerCase[CHOOSE i \in 1..Len(UpperCase) : UpperCase[i] = c]
    ELSE c

RECURSIVE lower(_)
lower(s) ==
    IF Len(s) <= 1 THEN LowerChar(s)
    ELSE LET h == Len(s) \div 2
         IN  lower(SubSeq(s, 1, h)) \o lower(SubSeq(s, h + 1, Len(s)))

\* Python's `w in text` for strings
In(w, text) ==
    \E i \in 1..(Len(text) - Len(w) + 1) : SubSeq(text, i, i + Len(w) - 1) = w

\* any(w in text for w in words)
AnyIn(words, text) == \E i \in 1..Len(words) : In(words[i], text)

----------------------------------------------------------------------------
(* v2.1 lexical: classification data, classify_news, compute_impact_score *)

macro_themes_v21 == <<
    [key |-> "interest_rate",
     words |-> <<"interest", "inflation", "cpi", "ppi", "fed", "ecb", "rate hike", "yields">>],
    [key |-> "energy",
     words |-> <<"oil", "gas", "opec", "energy supply", "pipeline", "crude">>],
    [key |-> "tech",
     words |-> <<"ai", "technology", "chip", "semiconductor", "software">>],
    [key |-> "geopolitical",
     words |-> <<"conflict", "war", "border", "sanction", "missile", "tension">>],
    [key |-> "fiscal",
     words |-> <<"stimulus", "government spending", "budget", "subsidy">>],
    [key |-> "currency",
     words |-> <<"forex", "currency", "yen", "yuan", "liquidity", "dollar index">>],
    [key |-> "labor",
     words |-> <<"unemployment", "jobs", "wage", "labor market">>],
    [key |-> "crypto",
     words |-> <<"bitcoin", "crypto", "ethereum", "token", "blockchain">>],
    [key |-> "political_shock",
     words |-> <<"assassination", "prime minister", "president", "resignation", "leader death">>] >>

micro_themes_v21 == <<
    [key |-> "earnings",
     words |-> <<"earnings", "quarterly", "revenue", "profit", "guidance">>],
    [key |-> "company_specific",
     words |-> <<"launch", "ceo", "merger", "acquisition", "company">>],
    [key |-> "sector_only",
     words |-> <<"retail sales", "chip demand", "housing data">>] >>

irrelevant_keywords_v21 ==
    <<"accident", "celebrity", "movie", "festival", "sports", "award", "weather", "crime">>

\* points are whole severity points
severity_weights_v21 == <<
    [word |-> "crisis", pts |-> 30], [word |-> "war", pts |-> 30],
    [word |-> "sanction", pts |-> 25], [word |-> "default", pts |-> 30],
    [word |-> "surge", pts |-> 20], [word |-> "collapse", pts |-> 20],
    [word |-> "emergency", pts |-> 20],
    [word |-> "hike", pts |-> 15], [word |-> "cut", pts |-> 15],
    [word |-> "inflation", pts |-> 15],
    [word |-> "mild", pts |-> 5], [word |-> "slight", pts |-> 5] >>

\* FirstTheme with the scan keeping the last match instead of returning at the first
FirstTheme_last_match(table, text) ==
    IF \E i \in 1..Len(table) : AnyIn(table[i].words, text)
    THEN CHOOSE i \in 1..Len(table) :
            /\ AnyIn(table[i].words, text)
            /\ \A j \in (i + 1)..Len(table) : ~AnyIn(table[j].words, text)
    ELSE 0

\* index of the first entry of an ordered theme table with a keyword in text, 0 if none
FirstTheme(table, text) ==
    IF \E i \in 1..Len(table) : AnyIn(table[i].words, text)
    THEN CHOOSE i \in 1..Len(table) :
            /\ AnyIn(table[i].words, text)
            /\ \A j \in 1..(i - 1) : ~AnyIn(table[j].words, text)
    ELSE 0

\* classify_news with the irrelevant-keyword loop moved after the theme loops
classify_news_v21_themes_first(text) ==
    LET t == lower(text)
        mi == FirstTheme(micro_themes_v21, t)
        ma == FirstTheme(macro_themes_v21, t)
    IN  IF mi # 0 THEN <<"micro", micro_themes_v21[mi].key>>
        ELSE IF ma # 0 THEN <<"macro", macro_themes_v21[ma].key>>
        ELSE IF AnyIn(irrelevant_keywords_v21, t)
        THEN <<"irrelevant", "Not market-affecting">>
        ELSE <<"irrelevant", "No macro/micro signals detected">>

classify_news_v21(text) ==
    LET t == lower(text)
        mi == FirstTheme(micro_themes_v21, t)
        ma == FirstTheme(macro_themes_v21, t)
    IN  IF AnyIn(irrelevant_keywords_v21, t)
        THEN <<"irrelevant", "Not market-affecting">>
        ELSE IF mi # 0 THEN <<"micro", micro_themes_v21[mi].key>>
        ELSE IF ma # 0 THEN <<"macro", macro_themes_v21[ma].key>>
        ELSE <<"irrelevant", "No macro/micro signals detected">>

RECURSIVE ScoreSum_v21(_, _)
ScoreSum_v21(i, t) ==
    IF i > Len(severity_weights_v21) THEN 0
    ELSE (IF In(severity_weights_v21[i].word, t) THEN severity_weights_v21[i].pts ELSE 0)
         + ScoreSum_v21(i + 1, t)

compute_impact_score_v21(text) ==
    Min2(ScoreSum_v21(1, lower(text)) * SevUnit, 100 * SevUnit)

----------------------------------------------------------------------------
(* v2.4 lexical: classification data, classify_news, compute_impact_score *)

macro_themes_v24 == <<
    [key |-> "interest_rate",
     words |-> <<"interest", "inflation", "cpi", "ppi", "fed", "ecb", "rate hike", "yields">>],
    [key |-> "energy",
     words |-> <<"oil", "gas", "opec", "energy supply", "pipeline", "crude">>],
    [key |-> "tech",
     words |-> <<"ai", "technology", "chip", "semiconductor", "software">>],
    [key |-> "geopolitical",
     words |-> <<"conflict", "war", "border", "sanction", "missile", "tension">>],
    [key |-> "fiscal",
     words |-> <<"stimulus", "government spending", "budget", "subsidy">>],
    [key |-> "currency",
     words |-> <<"forex", "currency", "yen", "yuan", "dollar index">>],
    [key |-> "labor",
     words |-> <<"unemployment", "jobs", "wage", "labor market">>],
    [key |-> "crypto",
     words |-> <<"bitcoin", "crypto", "ethereum", "token", "blockchain">>],
    [key |-> "political_shock",
     words |-> <<"assassination", "prime minister", "president", "resignation", "leader death">>] >>

micro_themes_v24 == <<
    [key |-> "earnings",
     words |-> <<"earnings", "quarterly", "revenue", "profit", "guidance">>],
    [key |-> "company_specific",
     words |-> <<"launch", "ceo", "merger", "acquisition", "company">>],
    [key |-> "sector_only",
     words |-> <<"retail sales", "chip demand", "housing data">>] >>

irrelevant_keywords_v24 ==
    <<"accident", "celebrity", "movie", "festival", "sports", "award", "weather", "crime">>

\* multipliers are held in tenths (1.5 is 15)
severity_weights_v24 == <<
    [word |-> "crisis", mult |-> 15], [word |-> "war", mult |-> 15],
    [word |-> "sanction", mult |-> 13], [word |-> "default", mult |-> 15],
    [word |-> "surge", mult |-> 12], [word |-> "collapse", mult |-> 12],
    [word |-> "emergency", mult |-> 12],
    [word |-> "hike", mult |-> 11], [word |-> "cut", mult |-> 11],
    [word |-> "inflation", mult |-> 11],
    [word |-> "mild", mult |-> 10], [word |-> "slight", mult |-> 10] >>

classify_news_v24(text) ==
    LET text_lower == lower(text)
        mi == FirstTheme(micro_themes_v24, text_lower)
        ma == FirstTheme(macro_themes_v24, text_lower)
    IN  IF AnyIn(irrelevant_keywords_v24, text_lower)
        THEN <<"irrelevant", "Local / Irrelevant News">>
        ELSE IF mi # 0 THEN <<"micro", micro_themes_v24[mi].key>>
        ELSE IF ma # 0 THEN <<"macro", macro_themes_v24[ma].key>>
        ELSE <<"irrelevant", "No macro/micro signals detected">>

\* score += 20 * (mult - 1 + 1): with mult in tenths, 20 * mult is 2 * mult10 points
RECURSIVE ScoreSum_v24(_, _)
ScoreSum_v24(i, t) ==
    IF i > Len(severity_weights_v24) THEN 0
    ELSE (IF In(severity_weights_v24[i].word, t)
          THEN 2 * (severity_weights_v24[i].mult - 10 + 10) * SevUnit
          ELSE 0)
         + ScoreSum_v24(i + 1, t)

\* compute_impact_score without the upper clamp
compute_impact_score_v24_unclamped(text) ==
    Max2(ScoreSum_v24(1, lower(text)), 20 * SevUnit)

compute_impact_score_v24(text) ==
    Min2(Max2(ScoreSum_v24(1, lower(text)), 20 * SevUnit), 100 * SevUnit)

\* horizon_threshold with strict comparisons
horizon_threshold_v24_strict(event_score, horizon) ==
    IF horizon <= 10 THEN event_score > 20 * SevUnit
    ELSE IF horizon <= 30 THEN event_score > 40 * SevUnit
    ELSE event_score > 70 * SevUnit

horizon_threshold_v24(event_score, horizon) ==
    IF horizon <= 10 THEN event_score >= 20 * SevUnit
    ELSE IF horizon <= 30 THEN event_score >= 40 * SevUnit
    ELSE event_score >= 70 * SevUnit

----------------------------------------------------------------------------
(* Renormalisation arithmetic: round(new[k] / total * 100, 2) *)

\* <<floor(n * 10^k / d), remainder>> for d > 0, one decimal digit at a time
RECURSIVE ScaledDiv(_, _, _)
ScaledDiv(n, d, k) ==
    IF k = 0 THEN <<n \div d, n % d>>
    ELSE LET p == ScaledDiv(n, d, k - 1)
         IN  <<p[1] * 10 + ((p[2] * 10) \div d), (p[2] * 10) % d>>

\* new/total*100 in units of 1/100, as <<floor, remainder, divisor>>
Share(n, total) ==
    IF total > 0 THEN ScaledDiv(n, total, 4) \o <<total>>
    ELSE ScaledDiv(-n, -total, 4) \o <<-total>>

IsTie(n, total) == LET s == Share(n, total) IN 2 * s[2] = s[3]

\* Round2 truncating toward minus infinity instead of rounding
Round2_truncating(n, total, tieUp) == Share(n, total)[1]

\* round(n / total * 100, 2) in units of 1/100; tieUp decides an exact tie
Round2(n, total, tieUp) ==
    LET s == Share(n, total)
    IN  IF 2 * s[2] > s[3] THEN s[1] + 1
        ELSE IF 2 * s[2] < s[3] THEN s[1]
        ELSE IF tieUp THEN s[1] + 1 ELSE s[1]

\* Shifted with the shift not scaled by the intensity: new[asset] += shift
Shifted_unscaled(base, rule, intensity) ==
    [a \in AssetSet |->
        base[a] * 100 * SevUnit
            + (IF a \in DOMAIN rule THEN rule[a] * 100 * SevUnit ELSE 0)]

\* weights after the rule, in units of 1/(100 * SevUnit) percent:
\* new[asset] += shift * intensity, with intensity in units of 1/(100 * SevUnit)
Shifted(base, rule, intensity) ==
    [a \in AssetSet |->
        base[a] * 100 * SevUnit + (IF a \in DOMAIN rule THEN rule[a] * intensity ELSE 0)]

\* the renormalised, rounded copy (units of 1/100 percent), or the division error
Normalized(new, up) ==
    LET total == SumOver(new, AssetSet)
    IN  IF total = 0 THEN "ZeroDivisionError"
        ELSE [a \in AssetSet |-> Round2(new[a], total, a \in up)]

\* the assets whose share is an exact rounding tie
Ties(new) ==
    LET total == SumOver(new, AssetSet)
    IN  IF total = 0 THEN {} ELSE {a \in AssetSet : IsTie(new[a], total)}

\* an unrounded copy of the input weights, in the output's unit
Copy(base) == [a \in AssetSet |-> base[a] * 100]

----------------------------------------------------------------------------
(* Rebalance rules and apply_rebalance, v2.1 and v2.4 lexical *)

\* macro_rebalance_rules with the currency rule losing its Bonds shift
macro_rebalance_rules_v21_one_sided == [
    interest_rate |-> [Equities |-> -10, Bonds |-> 10],
    energy |-> [Commodities |-> 15, Equities |-> -5],
    tech |-> [Equities |-> 10],
    geopolitical |-> [Bonds |-> 10, Commodities |-> 5, Equities |-> -10],
    fiscal |-> [Equities |-> 10],
    currency |-> [Crypto |-> -10],
    labor |-> [Equities |-> -5, Bonds |-> 5],
    crypto |-> [Crypto |-> 15],
    political_shock |-> [Bonds |-> 10, Equities |-> -10] ]

macro_rebalance_rules_v21 == [
    interest_rate |-> [Equities |-> -10, Bonds |-> 10],
    energy |-> [Commodities |-> 15, Equities |-> -5],
    tech |-> [Equities |-> 10],
    geopolitical |-> [Bonds |-> 10, Commodities |-> 5, Equities |-> -10],
    fiscal |-> [Equities |-> 10],
    currency |-> [Bonds |-> 5, Crypto |-> -10],
    labor |-> [Equities |-> -5, Bonds |-> 5],
    crypto |-> [Crypto |-> 15],
    political_shock |-> [Bonds |-> 10, Equities |-> -10] ]

\* macro_rebalance_rules with the two interest_rate shifts exchanged
macro_rebalance_rules_v24_exchanged == [
    interest_rate |-> [Equities |-> 10, Bonds |-> -10],
    energy |-> [Commodities |-> 15, Equities |-> -5],
    tech |-> [Equities |-> 10],
    geopolitical |-> [Bonds |-> 10, Commodities |-> 5, Equities |-> -10],
    fiscal |-> [Equities |-> 10],
    currency |-> [Bonds |-> 5, Crypto |-> -10],
    labor |-> [Equities |-> -5, Bonds |-> 5],
    crypto |-> [Crypto |-> 15],
    political_shock |-> [Bonds |-> 10, Equities |-> -10] ]

macro_rebalance_rules_v24 == [
    interest_rate |-> [Equities |-> -10, Bonds |-> 10],
    energy |-> [Commodities |-> 15, Equities |-> -5],
    tech |-> [Equities |-> 10],
    geopolitical |-> [Bonds |-> 10, Commodities |-> 5, Equities |-> -10],
    fiscal |-> [Equities |-> 10],
    currency |-> [Bonds |-> 5, Crypto |-> -10],
    labor |-> [Equities |-> -5, Bonds |-> 5],
    crypto |-> [Crypto |-> 15],
    political_shock |-> [Bonds |-> 10, Equities |-> -10] ]

\* new after the rule loop, or the plain copy when the theme has no rule
New_v21(base, th, intensity_factor) ==
    Shifted(base, macro_rebalance_rules_v21[th], intensity_factor)

apply_rebalance_v21(base, th, intensity_factor, up) ==
    IF th \notin DOMAIN macro_rebalance_rules_v21 THEN Copy(base)
    ELSE Normalized(New_v21(base, th, intensity_factor), up)

New_v24(base_weights, th, intensity_factor) ==
    Shifted(base_weights, macro_rebalance_rules_v24[th], intensity_factor)

apply_rebalance_v24(base_weights, th, intensity_factor, up) ==
    IF th \notin DOMAIN macro_rebalance_rules_v24 THEN Copy(base_weights)
    ELSE Normalized(New_v24(base_weights, th, intensity_factor), up)

----------------------------------------------------------------------------
(* v2.4 embedding: themes, classify_headline, sentiment, severity, gate *)

\* the keys of THEMES, in dictionary order
THEMES == <<"interest_rates", "energy", "tech", "geopolitical", "fiscal",
            "currency_fx", "labor", "crypto", "political_shock", "commodities">>
ThemeSet == {THEMES[i] : i \in 1..Len(THEMES)}

\* max(sims, key=sims.get): the first theme, in order, of maximum similarity
Primary(s) ==
    THEMES[CHOOSE i \in 1..Len(THEMES) :
              /\ \A j \in 1..Len(THEMES) : s[THEMES[j]] <= s[THEMES[i]]
              /\ \A j \in 1..(i - 1) : s[THEMES[j]] < s[THEMES[i]]]

\* val > 0.75 * primary_score, similarities in 1/100
Qualifies(s, t, primary) == t # primary /\ 4 * s[t] > 3 * s[primary]

\* classify_headline with a break after the first qualifying theme
classify_headline_first_qualifying(s) ==
    LET primary == Primary(s)
        Q == {i \in 1..Len(THEMES) : Qualifies(s, THEMES[i], primary)}
        first == CHOOSE i \in Q : \A j \in Q : i <= j
    IN  IF Q = {} THEN <<primary, s[primary], NoValue, 0>>
        ELSE <<primary, s[primary], THEMES[first], s[THEMES[first]]>>

\* for t, val in sims.items(): if t != primary and val > 0.75 * primary_score:
\*     secondary = t; secondary_score = val
\* from theme i on, with <<secondary, secondary_score>> as found so far
RECURSIVE ScanSecondary(_, _, _, _)
ScanSecondary(s, primary, i, found) ==
    IF i > Len(THEMES) THEN found
    ELSE ScanSecondary(s, primary, i + 1,
                       IF Qualifies(s, THEMES[i], primary)
                       THEN <<THEMES[i], s[THEMES[i]]>>
                       ELSE found)

\* secondary = None and secondary_score = 0 before the loop
classify_headline(s) ==
    LET primary == Primary(s)
        found == ScanSecondary(s, primary, 1, <<NoValue, 0>>)
    IN  <<primary, s[primary], found[1], found[2]>>

pos_words == <<"rallies", "optimism", "growth", "record high">>
neg_words == <<"crisis", "collapse", "fell", "war", "attack", "assassinated">>

RECURSIVE CountIn(_, _, _)
CountIn(words, i, t) ==
    IF i > Len(words) THEN 0
    ELSE (IF In(words[i], t) THEN 1 ELSE 0) + CountIn(words, i + 1, t)

compute_sentiment(text) ==
    CountIn(pos_words, 1, lower(text)) - CountIn(neg_words, 1, lower(text))

\* every product below is an exact integer number of 1/SevUnit
compute_severity(primary_score, secondary_score, sentiment, horizon) ==
    LET s0 == primary_score * SevUnit
        s1 == IF secondary_score > 0 THEN (s0 * 115) \div 100 ELSE s0
        s2 == IF sentiment < 0 THEN (s1 * 12) \div 10 ELSE s1
        s3 == IF horizon > 30 THEN (s2 * 75) \div 100
              ELSE IF horizon < 10 THEN (s2 * 115) \div 100
              ELSE s2
    IN  Min2(100 * SevUnit, Max2(20 * SevUnit, s3))

horizon_threshold_emb(severity, horizon) ==
    IF horizon <= 10 THEN severity >= 20 * SevUnit
    ELSE IF horizon <= 30 THEN severity >= 40 * SevUnit
    ELSE severity >= 70 * SevUnit

rebalance_rules == [
    interest_rates |-> [Equities |-> -10, Bonds |-> 15],
    energy |-> [Commodities |-> 15],
    tech |-> [Equities |-> 12],
    geopolitical |-> [Bonds |-> 10, Commodities |-> 8, Equities |-> -10],
    fiscal |-> [Equities |-> 10],
    currency_fx |-> [Crypto |-> -10, Bonds |-> 5],
    labor |-> [Equities |-> -5, Bonds |-> 5],
    crypto |-> [Crypto |-> 15],
    political_shock |-> [Bonds |-> 12, Equities |-> -12],
    commodities |-> [Commodities |-> 15] ]

\* intensity = severity / 100: the same integer, read in units of 1/(100 * SevUnit)
New_emb(weights, th, severity) ==
    IF th \in DOMAIN rebalance_rules
    THEN Shifted(weights, rebalance_rules[th], severity)
    ELSE Shifted(weights, << >>, severity)

apply_rebalance_emb(weights, th, severity, up) ==
    Normalized(New_emb(weights, th, severity), up)

----------------------------------------------------------------------------
(* v0.1: simulate_macro_cluster, sensitivity matrix, generate_suggested_portfolio *)

asset_mapping == [
    Equities |-> "SPY", Bonds |-> "IEF", Crypto |-> "BTC", ETF |-> "QQQ",
    Options |-> "SPY_Option", Futures |-> "ES", Commodities |-> "GLD" ]

\* clusters 0..7 are entries 1..8
cluster_keywords == <<
    [key |-> 0, words |-> <<"inflation", "prices", "cpi", "pmi">>],
    [key |-> 1, words |-> <<"oil", "energy", "gas", "opec">>],
    [key |-> 2, words |-> <<"war", "conflict", "geopolitics", "sanctions">>],
    [key |-> 3, words |-> <<"tech", "ai", "chips", "innovation">>],
    [key |-> 4, words |-> <<"dollar", "currency", "forex", "fed">>],
    [key |-> 5, words |-> <<"recession", "slowdown", "unemployment">>],
    [key |-> 6, words |-> <<"crypto", "bitcoin", "blockchain">>],
    [key |-> 7, words |-> <<"rates", "hikes", "treasury", "yields">>] >>

\* the cluster ids a call may return: np.random.randint(0, 8) when nothing matches
simulate_macro_cluster(text) ==
    LET i == FirstTheme(cluster_keywords, lower(text))
    IN  IF i # 0 THEN {cluster_keywords[i].key} ELSE 0..7

cluster_names == <<
    "Inflation / Price Pressure",
    "Energy Supply / Oil Shock",
    "Geopolitical Tension",
    "Tech Growth / Innovation",
    "USD / Currency Shifts",
    "Economic Slowdown",
    "Crypto Market Pressure",
    "Interest Rate / Yield Pressure" >>

\* the cluster id a displayed theme name stands for
ClusterId(name) == (CHOOSE i \in 1..Len(cluster_names) : cluster_names[i] = name) - 1

sensitivity == [
    SPY        |-> <<-1, -1, -1,  1, -1, -1,  0, -1>>,
    IEF        |-> <<-1,  0,  1, -1,  1,  1,  0,  1>>,
    BTC        |-> << 0, -1, -1,  1, -1, -1, -1, -1>>,
    QQQ        |-> <<-1,  0, -1,  1, -1, -1,  0, -1>>,
    SPY_Option |-> << 1, -1, -1,  1, -1, -1,  1, -1>>,
    ES         |-> <<-1, -1, -1,  1, -1, -1,  0, -1>>,
    GLD        |-> << 1,  1,  1, -1,  1,  1,  0,  1>> ]

effect_strength == 3          \* 0.03, in 1/100

\* Weights are exact fractions num[a]/den.  With n instruments each starts at
\* 1/n = 100/(100 n); +-0.03 is +-3n/(100 n); clip(lower=0); divide by the sum.
generate_suggested_portfolio(cluster_id, instruments) ==
    LET n == Cardinality(instruments)
        moved == [a \in instruments |->
                    100 + (IF a \in DOMAIN sensitivity
                           THEN sensitivity[a][cluster_id + 1] * effect_strength * n
                           ELSE 0)]
        clipped == [a \in instruments |-> Max2(moved[a], 0)]
    IN  [num |-> clipped, den |-> SumOver(clipped, instruments)]

----------------------------------------------------------------------------
(* Inputs of a session *)

MaxFragments == 2     \* a headline joins at most this many fragments
MaxRuns == 2          \* script runs per session (Streamlit reruns on interaction)

Fragments == <<
    "Federal Reserve raises rates by 0.5%",
    "Fed hikes rates",
    "amid celebrity gossip",
    "Company X reports record quarterly earnings",
    "Oil prices surge",
    "inflation crisis",
    "Local celebrity wins award at film festival",
    "hello world" >>

\* the fragments with index in S, in order, joined by single spaces
RECURSIVE Join(_, _)
Join(frags, S) ==
    IF S = {} THEN ""
    ELSE LET i == CHOOSE x \in S : \A y \in S : x <= y
             rest == Join(frags, S \ {i})
         IN  IF rest = "" THEN frags[i] ELSE frags[i] \o " " \o rest

HeadlinesOf(frags, k) ==
    {Join(frags, S) : S \in {T \in SUBSET (1..Len(frags)) : Cardinality(T) <= k}}

Headlines == HeadlinesOf(Fragments, MaxFragments)

Portfolio(e, b, t, c, m) ==
    [Equities |-> e, Bonds |-> b, ETFs |-> t, Crypto |-> c, Commodities |-> m]

\* what the five number inputs may hold; the last two do not total 100
SessionPortfolios == {
    Portfolio(20, 20, 20, 20, 20),
    Portfolio(0, 100, 0, 0, 0),
    Portfolio(20, 20, 20, 20, 10),
    Portfolio(30, 20, 20, 20, 20) }

\* 0.5, 1.0, 3.0 and 5.0 years
SessionHorizons == {5, 10, 30, 50}

SessionSelections == {
    {"Equities", "Bonds", "Crypto", "ETF", "Commodities"},
    DOMAIN asset_mapping,
    {"Bonds"} }

Sims(hi, mid, lo, top, second) ==
    [t \in ThemeSet |-> IF t = top THEN hi ELSE IF t = second THEN mid ELSE lo]

\* what the embedding provider may answer, as similarities in 1/100
SimProfiles == {
    Sims(80, 10, 10, "interest_rates", "energy"),
    Sims(60, 50, 20, "geopolitical", "political_shock"),
    Sims(15, 15, 15, "tech", "labor"),
    Sims(95, 90, 30, "energy", "commodities") }

Variants == {"v01", "v21", "v24emb", "v24lex"}
Lexical == {"v21", "v24lex"}
Weighted == {"v21", "v24emb", "v24lex"}
Terminal == {"rejected", "idle", "stopped", "done"}

----------------------------------------------------------------------------
(* The script run *)

Outputs == <<event_type, theme, secondary, impact, passed, updated, result_ref>>
Inputs == <<variant, initial_weights, horizon_years, headline, allowed_assets>>

\* nothing computed yet
Fresh ==
    /\ sims = Nothing
    /\ event_type = NoValue
    /\ theme = NoValue
    /\ secondary = Nothing
    /\ impact = NoScore
    /\ passed = NoValue
    /\ updated = NoPortfolio
    /\ result_ref = NoRef

Init ==
    /\ variant \in Variants
    /\ headline \in Headlines
    /\ IF variant = "v01"
       THEN /\ allowed_assets \in SessionSelections
            /\ initial_weights = NoPortfolio
            /\ horizon_years = 0
       ELSE /\ allowed_assets = {}
            /\ initial_weights \in SessionPortfolios
            /\ horizon_years \in SessionHorizons
    /\ pc = "start"
    /\ Fresh
    /\ fp = Unset
    /\ runs = 1
    /\ prev = Nothing

\* Validate without the total_alloc test
Validate_unchecked ==
    /\ pc = "start"
    /\ variant \in Weighted
    /\ pc' = "input_ok"
    /\ UNCHANGED <<Inputs, sims, Outputs, fp, runs, prev>>

\* total_alloc != 100: st.error and st.stop
Validate ==
    /\ pc = "start"
    /\ variant \in Weighted
    /\ pc' = IF SumOver(initial_weights, AssetSet) # 100 THEN "rejected" ELSE "input_ok"
    /\ UNCHANGED <<Inputs, sims, Outputs, fp, runs, prev>>

\* v01: current_portfolio = create_equal_weight_portfolio(instruments, capital)
CreatePortfolio ==
    /\ pc = "start"
    /\ variant = "v01"
    /\ LET instruments == {asset_mapping[a] : a \in allowed_assets}
       IN  initial_weights' = [num |-> [a \in instruments |-> 1],
                               den |-> Cardinality(instruments)]
    /\ pc' = "input_ok"
    /\ UNCHANGED <<variant, horizon_years, headline, allowed_assets, sims, Outputs,
                   fp, runs, prev>>

\* `if analyze_button and headline` (v24emb: headline.strip()) is false
NoHeadline ==
    /\ pc = "input_ok"
    /\ headline = ""
    /\ pc' = "idle"
    /\ UNCHANGED <<Inputs, sims, Outputs, fp, runs, prev>>

\* classify_news and compute_impact_score
AnalyzeLexical ==
    /\ pc = "input_ok"
    /\ variant \in Lexical
    /\ headline # ""
    /\ LET c == IF variant = "v21" THEN classify_news_v21(headline)
                ELSE classify_news_v24(headline)
       IN  /\ event_type' = c[1]
           /\ theme' = c[2]
    /\ impact' = IF variant = "v21" THEN compute_impact_score_v21(headline)
                 ELSE compute_impact_score_v24(headline)
    /\ pc' = "analyzed"
    /\ UNCHANGED <<Inputs, sims, secondary, passed, updated, result_ref, fp, runs, prev>>

\* classify_headline, compute_sentiment and compute_severity; the embedding
\* provider's answer, one of `answers`, is the environment's choice
AnalyzeEmbeddingFrom(answers) ==
    /\ pc = "input_ok"
    /\ variant = "v24emb"
    /\ headline # ""
    /\ LET sentiment == compute_sentiment(headline)
       IN  \E s \in answers :
              LET c == classify_headline(s)
              IN  /\ sims' = s
                  /\ theme' = c[1]
                  /\ secondary' = <<c[3], c[4]>>
                  /\ impact' = compute_severity(c[2], c[4], sentiment, horizon_years)
    /\ pc' = "analyzed"
    /\ UNCHANGED <<Inputs, event_type, passed, updated, result_ref, fp, runs, prev>>

AnalyzeEmbedding == AnalyzeEmbeddingFrom(SimProfiles)

\* v01: cluster_id = simulate_macro_cluster(headline); theme = cluster_names[cluster_id];
\* there is no gate
AnalyzeCluster ==
    /\ pc = "input_ok"
    /\ variant = "v01"
    /\ headline # ""
    /\ \E cluster_id \in simulate_macro_cluster(headline) :
          theme' = cluster_names[cluster_id + 1]
    /\ pc' = "rebalancing"
    /\ UNCHANGED <<Inputs, sims, event_type, secondary, impact, passed, updated, result_ref,
                   fp, runs, prev>>

impact_threshold_v21 == 25

\* Decide_v21 with the micro branch showing its note without st.stop
Decide_v21_micro_continues ==
    /\ pc = "analyzed"
    /\ variant = "v21"
    /\ IF event_type = "irrelevant"
       THEN pc' = "stopped" /\ passed' = passed
       ELSE IF impact < impact_threshold_v21 * SevUnit
       THEN pc' = "stopped" /\ passed' = "no"
       ELSE pc' = "rebalancing" /\ passed' = "yes"
    /\ UNCHANGED <<Inputs, sims, event_type, theme, secondary, impact, updated, result_ref,
                   fp, runs, prev>>

\* v2.1: irrelevant stops, micro stops, impact < 25 stops
Decide_v21 ==
    /\ pc = "analyzed"
    /\ variant = "v21"
    /\ IF event_type = "irrelevant" \/ event_type = "micro"
       THEN pc' = "stopped" /\ passed' = passed
       ELSE IF impact < impact_threshold_v21 * SevUnit
       THEN pc' = "stopped" /\ passed' = "no"
       ELSE pc' = "rebalancing" /\ passed' = "yes"
    /\ UNCHANGED <<Inputs, sims, event_type, theme, secondary, impact, updated, result_ref,
                   fp, runs, prev>>

\* v2.4 lexical: irrelevant stops, micro only shows a note, then the horizon gate
Decide_v24lex ==
    /\ pc = "analyzed"
    /\ variant = "v24lex"
    /\ IF event_type = "irrelevant"
       THEN pc' = "stopped" /\ passed' = passed
       ELSE IF ~horizon_threshold_v24(impact, horizon_years)
       THEN pc' = "stopped" /\ passed' = "no"
       ELSE pc' = "rebalancing" /\ passed' = "yes"
    /\ UNCHANGED <<Inputs, sims, event_type, theme, secondary, impact, updated, result_ref,
                   fp, runs, prev>>

\* v2.4 embedding: the horizon gate alone
Decide_v24emb ==
    /\ pc = "analyzed"
    /\ variant = "v24emb"
    /\ IF ~horizon_threshold_emb(impact, horizon_years)
       THEN pc' = "stopped" /\ passed' = "no"
       ELSE pc' = "rebalancing" /\ passed' = "yes"
    /\ UNCHANGED <<Inputs, sims, event_type, theme, secondary, impact, updated, result_ref,
                   fp, runs, prev>>

\* the weights before rounding, for the variant running
NewOf(v, base, th, intensity) ==
    IF v = "v21"
    THEN (IF th \in DOMAIN macro_rebalance_rules_v21 THEN New_v21(base, th, intensity)
          ELSE Shifted(base, << >>, 0))
    ELSE IF v = "v24lex"
    THEN (IF th \in DOMAIN macro_rebalance_rules_v24 THEN New_v24(base, th, intensity)
          ELSE Shifted(base, << >>, 0))
    ELSE New_emb(base, th, intensity)

apply_rebalance(v, base, th, intensity, up) ==
    IF v = "v21" THEN apply_rebalance_v21(base, th, intensity, up)
    ELSE IF v = "v24lex" THEN apply_rebalance_v24(base, th, intensity, up)
    ELSE apply_rebalance_emb(base, th, intensity, up)

\* Mappings are objects: a heap is the sequence of the objects' contents and a
\* reference is an index into it.  The caller's mapping is object base_ref.
base_ref == 1

\* new = base: the same object under a second name
dict_alias(heap, r) == [heap |-> heap, ref |-> r]

\* new = base.copy() / df = df.copy(): a new object with the same contents
dict_copy(heap, r) == [heap |-> Append(heap, heap[r]), ref |-> Len(heap) + 1]

\* a call of apply_rebalance on object r: the copy, the writes to new[...] and
\* `return new`; the heap after the call and the reference returned
Call_apply_rebalance(v, heap, r, th, intensity, up) ==
    LET c == dict_copy(heap, r)
    IN  [heap |-> [c.heap EXCEPT
                      ![c.ref] = apply_rebalance(v, c.heap[c.ref], th, intensity, up)],
         ref |-> c.ref]

\* a call of generate_suggested_portfolio on the frame r
Call_generate_suggested_portfolio(cluster_id, heap, r) ==
    LET c == dict_copy(heap, r)
    IN  [heap |-> [c.heap EXCEPT
                      ![c.ref] = generate_suggested_portfolio(
                                    cluster_id, DOMAIN c.heap[c.ref].num)],
         ref |-> c.ref]

\* intensity_factor = impact / 100; apply_rebalance.  A lexical run is a
\* function of its inputs, so the way its floats fall on a tie is fixed the
\* first time and kept (fp); the embedding run's inputs come from outside.
Rebalance ==
    /\ pc = "rebalancing"
    /\ variant \in Weighted
    /\ \E up \in (IF fp = Unset \/ variant = "v24emb"
                  THEN SUBSET Ties(NewOf(variant, initial_weights, theme, impact))
                  ELSE {fp}) :
          LET call == Call_apply_rebalance(variant, <<initial_weights>>, base_ref,
                                           theme, impact, up)
          IN  /\ initial_weights' = call.heap[base_ref]
              /\ updated' = call.heap[call.ref]
              /\ result_ref' = call.ref
              /\ fp' = up
    /\ pc' = "done"
    /\ UNCHANGED <<variant, horizon_years, headline, allowed_assets, sims,
                   event_type, theme, secondary, impact, passed, runs, prev>>

\* v01: suggested = generate_suggested_portfolio(cluster_id, current_portfolio)
Suggest ==
    /\ pc = "rebalancing"
    /\ variant = "v01"
    /\ LET call == Call_generate_suggested_portfolio(ClusterId(theme),
                                                     <<initial_weights>>, base_ref)
       IN  /\ initial_weights' = call.heap[base_ref]
           /\ updated' = call.heap[call.ref]
           /\ result_ref' = call.ref
    /\ pc' = "done"
    /\ UNCHANGED <<variant, horizon_years, headline, allowed_assets, sims,
                   event_type, theme, secondary, impact, passed, fp, runs, prev>>

\* any interaction reruns the script from the top with the same widget values
Rerun ==
    /\ pc \in Terminal
    /\ runs < MaxRuns
    /\ prev' = [pc |-> pc, event_type |-> event_type, theme |-> theme,
                impact |-> impact, updated |-> updated]
    /\ runs' = runs + 1
    /\ pc' = "start"
    /\ sims' = Nothing
    /\ event_type' = NoValue
    /\ theme' = NoValue
    /\ secondary' = Nothing
    /\ impact' = NoScore
    /\ passed' = NoValue
    /\ updated' = NoPortfolio
    /\ result_ref' = NoRef
    /\ initial_weights' = IF variant = "v01" THEN NoPortfolio ELSE initial_weights
    /\ UNCHANGED <<variant, horizon_years, headline, allowed_assets, fp>>

Next ==
    \/ Validate
    \/ CreatePortfolio
    \/ NoHeadline
    \/ AnalyzeLexical
    \/ AnalyzeEmbedding
    \/ AnalyzeCluster
    \/ Decide_v21
    \/ Decide_v24lex
    \/ Decide_v24emb
    \/ Rebalance
    \/ Suggest
    \/ Rerun

Spec == Init /\ [][Next]_vars

----------------------------------------------------------------------------
(* apply_rebalance on its own: every grid portfolio, theme and intensity *)

WeightGrid == {0, 20, 40, 60, 80, 100}

GridPortfolios ==
    {Portfolio(e, b, t, c, 100 - e - b - t - c) :
        <<e, b, t, c>> \in {q \in WeightGrid \X WeightGrid \X WeightGrid \X WeightGrid :
                              q[1] + q[2] + q[3] + q[4] <= 100}}

\* severities 0, 5, ..., 100, that is intensities 0.00, 0.05, ..., 1.00
Intensities == {5 * k * SevUnit : k \in 0..20}

\* the themes a variant may hand to apply_rebalance: its rule keys, and one without a rule
ThemesFor(v) ==
    IF v = "v21" THEN DOMAIN macro_rebalance_rules_v21 \cup {"earnings"}
    ELSE IF v = "v24lex" THEN DOMAIN macro_rebalance_rules_v24 \cup {"earnings"}
    ELSE ThemeSet

InitRebalance ==
    /\ variant \in Weighted
    /\ initial_weights \in GridPortfolios
    /\ theme \in ThemesFor(variant)
    /\ impact \in Intensities
    /\ pc = "rebalancing"
    /\ headline = ""
    /\ horizon_years = 10
    /\ allowed_assets = {}
    /\ sims = Nothing
    /\ event_type = NoValue
    /\ secondary = Nothing
    /\ passed = NoValue
    /\ updated = NoPortfolio
    /\ result_ref = NoRef
    /\ fp = Unset
    /\ runs = 1
    /\ prev = Nothing

SpecRebalance == InitRebalance /\ [][Rebalance]_vars

----------------------------------------------------------------------------
(* The threshold step on its own: every score and horizon around the brackets *)

\* 0.1, 0.5, 1.0, 1.1, 2.0, 3.0, 3.1, 5.0 and 30.0 years
GateHorizons == {1, 5, 10, 11, 20, 30, 31, 50, 300}

\* v2.1 scores are sums of whole points, a multiple of 5; the others are any real
GateScores(v) ==
    IF v = "v21" THEN {5 * k * SevUnit : k \in 0..20}
    ELSE {0, 199900, 200000, 200100, 249900, 250000, 399900, 400000, 400100,
          699900, 700000, 700100, 1000000}

InitGate ==
    /\ variant \in Weighted
    /\ impact \in GateScores(variant)
    /\ horizon_years \in GateHorizons
    /\ event_type = IF variant \in Lexical THEN "macro" ELSE NoValue
    /\ theme = "energy"
    /\ pc = "analyzed"
    /\ headline = "Oil"
    /\ initial_weights = Portfolio(20, 20, 20, 20, 20)
    /\ allowed_assets = {}
    /\ sims = Nothing
    /\ secondary = Nothing
    /\ passed = NoValue
    /\ updated = NoPortfolio
    /\ result_ref = NoRef
    /\ fp = Unset
    /\ runs = 1
    /\ prev = Nothing

NextGate == Decide_v21 \/ Decide_v24lex \/ Decide_v24emb

SpecGate == InitGate /\ [][NextGate]_vars

----------------------------------------------------------------------------
(* Classification and scoring on their own: richer headlines and answers *)

MaxSeverityWords == 4     \* severity keywords joined into one headline

ClassifyFragments == <<
    "Celebrity chef",
    "award season",
    "Quarterly Earnings beat",
    "CEO resigns",
    "retail sales",
    "Inflation cools",
    "OPEC cuts oil",
    "AI chip",
    "demand soars",
    "border war",
    "stimulus budget",
    "liquidity crunch",
    "jobs report",
    "Bitcoin token",
    "President resigns",
    "hello world" >>

SeverityFragments == <<
    "crisis", "war", "sanction", "default", "surge", "collapse", "emergency",
    "hike", "cut", "inflation", "mild", "slight" >>

AnalysisHeadlines ==
    (HeadlinesOf(ClassifyFragments, MaxFragments)
        \cup HeadlinesOf(SeverityFragments, MaxSeverityWords)) \ {""}

SentimentHeadlines == {"markets steady", "Stocks fell on war fears", "Record high optimism"}

ScoreGrid == {-100, -40, -10, 0, 10, 15, 17, 20, 30, 50, 60, 70, 80, 90, 100}

\* a primary similarity with every other theme at one lower (or equal) value
WideAnswers ==
    {Sims(q[1], q[2], q[2], "energy", "labor") :
        q \in {r \in ScoreGrid \X ScoreGrid : r[2] <= r[1]}}

InitAnalyze ==
    /\ variant \in Weighted
    /\ IF variant \in Lexical
       THEN headline \in AnalysisHeadlines /\ horizon_years = 10
       ELSE headline \in SentimentHeadlines /\ horizon_years \in GateHorizons
    /\ initial_weights = Portfolio(20, 20, 20, 20, 20)
    /\ allowed_assets = {}
    /\ pc = "input_ok"
    /\ Fresh
    /\ fp = Unset
    /\ runs = 1
    /\ prev = Nothing

NextAnalyze == AnalyzeLexical \/ AnalyzeEmbeddingFrom(WideAnswers)

SpecAnalyze == InitAnalyze /\ [][NextAnalyze]_vars

----------------------------------------------------------------------------
(* The interest-rate rebalance: whole runs on interest-rate headlines over every
   grid portfolio, and apply_rebalance on its own for the interest-rate theme *)

InterestThemes == {"interest_rate", "interest_rates"}

InterestHeadlines == {
    "Federal Reserve raises rates by 0.5%",
    "Fed hikes rates",
    "inflation crisis",
    "Fed hikes rates inflation crisis" }

InitInterestRate ==
    \/ /\ variant \in Weighted
       /\ headline \in InterestHeadlines
       /\ initial_weights \in GridPortfolios
       /\ horizon_years \in SessionHorizons
       /\ allowed_assets = {}
       /\ pc = "start"
       /\ Fresh
       /\ fp = Unset
       /\ runs = 1
       /\ prev = Nothing
    \/ /\ InitRebalance
       /\ theme \in InterestThemes

NextInterestRate ==
    \/ Validate
    \/ AnalyzeLexical
    \/ AnalyzeEmbedding
    \/ Decide_v21
    \/ Decide_v24lex
    \/ Decide_v24emb
    \/ Rebalance

SpecInterestRate == InitInterestRate /\ [][NextInterestRate]_vars

----------------------------------------------------------------------------
(* The embedding classifier on its own: one theme on top, up to MaxStrong
   others at a middle similarity, the rest at a low one *)

MaxStrong == 2     \* themes at the middle similarity

\* <<top, middle, low>> similarities in 1/100: around the 0.75 line, tied at
\* the top, none or all qualifying, and not positive
SimLevels == {<<80, 70, 50>>, <<80, 61, 60>>, <<80, 70, 65>>, <<80, 50, 10>>,
              <<80, 80, 50>>, <<0, 0, -10>>, <<-10, -20, -30>>}

MixedAnswers ==
    {[t \in ThemeSet |-> IF t = top THEN l[1] ELSE IF t \in strong THEN l[2] ELSE l[3]] :
        top \in ThemeSet,
        strong \in {S \in SUBSET ThemeSet : Cardinality(S) <= MaxStrong},
        l \in SimLevels}

InitSecondary ==
    /\ variant = "v24emb"
    /\ headline = "markets steady"
    /\ horizon_years = 10
    /\ initial_weights = Portfolio(20, 20, 20, 20, 20)
    /\ allowed_assets = {}
    /\ pc = "input_ok"
    /\ Fresh
    /\ fp = Unset
    /\ runs = 1
    /\ prev = Nothing

NextSecondary == AnalyzeEmbeddingFrom(MixedAnswers)

SpecSecondary == InitSecondary /\ [][NextSecondary]_vars

----------------------------------------------------------------------------
(* Properties *)

Abs(x) == IF x < 0 THEN -x ELSE x

\* the sum of the rounded output weights, in 1/100 percent
OutputTotal == SumOver(updated, AssetSet)

\* C1 as stated: every apply_rebalance output sums to 100 within 0.01.
C1_SumWithinOneHundredth ==
    pc = "done" => Abs(OutputTotal - 100 * 100) <= 1

\* C1 amended: every apply_rebalance output (all three variants, every grid
\* portfolio summing to 100, every theme, every intensity in [0,1]) sums to 100
\* within 0.02 after the per-weight rounding to two decimals.
C1_SumWithinTwoHundredths ==
    pc = "done" => Abs(OutputTotal - 100 * 100) <= 2

\* a rule was applied at positive intensity and the five roundings lost 0.02
C1_Witness ==
    /\ pc = "done"
    /\ impact > 0
    /\ theme \in DOMAIN macro_rebalance_rules_v24 \cup DOMAIN rebalance_rules
    /\ Abs(OutputTotal - 100 * 100) = 2

\* C2: no weight of a rebalanced output is negative (the rebalance step clamps
\* to zero before renormalising), for every valid portfolio, theme and intensity.
C2_NoNegativeWeight ==
    pc = "done" =>
        IF variant = "v01"
        THEN \A a \in DOMAIN updated.num : updated.num[a] >= 0
        ELSE \A a \in AssetSet : updated[a] >= 0

\* C3: zero intensity is a no-op: apply_rebalance(P, theme, 0) equals P asset
\* by asset, for every portfolio summing to 100 and every theme, with or without
\* a rule.
C3_ZeroIntensityNoOp ==
    (pc = "done" /\ impact = 0) =>
        \A a \in AssetSet : updated[a] = 100 * initial_weights[a]

\* a theme with a rule was applied at intensity 0 to a portfolio it would move
C3_Witness ==
    /\ pc = "done"
    /\ impact = 0
    /\ variant = "v21"
    /\ theme = "interest_rate"
    /\ initial_weights = Portfolio(20, 20, 20, 20, 20)
    /\ updated = Copy(initial_weights)

\* C4 as stated: in every lexical run the rebalance step is reached, and a
\* rebalanced portfolio exists, only when the headline is tier macro and the
\* severity passed the gate.
C4_RebalanceOnlyForMacro ==
    (variant \in Lexical /\ (pc \in {"rebalancing", "done"} \/ updated # NoPortfolio)) =>
        (event_type = "macro" /\ passed = "yes")

\* C4 amended: in every lexical run the rebalance step is reached only when the
\* headline was not classified irrelevant and the severity passed the variant's
\* threshold; in v2.1 only for tier macro.  An irrelevant headline, a
\* below-threshold severity and, in v2.1, a micro headline end the run with no
\* rebalanced portfolio.  In v2.4 lexical a micro headline that passes the
\* gate reaches the rebalance step, which returns the weights unchanged.
C4_RebalanceOnlyWhenPassed ==
    variant \in Lexical =>
        /\ (pc \in {"rebalancing", "done"}) =>
                /\ event_type \in {"macro", "micro"}
                /\ passed = "yes"
                /\ (variant = "v21" => event_type = "macro")
        /\ (pc # "done") => updated = NoPortfolio
        /\ (pc = "stopped") =>
                \/ event_type = "irrelevant"
                \/ (variant = "v21" /\ event_type = "micro")
                \/ passed = "no"
        /\ (pc = "done" /\ event_type = "micro") => updated = Copy(initial_weights)

\* a micro headline went through the v2.4 lexical rebalance step
C4_Witness ==
    /\ variant = "v24lex"
    /\ pc = "done"
    /\ event_type = "micro"
    /\ theme = "earnings"

\* the bracket of the horizon gate, severity in 1/SevUnit, horizon in tenths of a year
Bracket(severity, horizon) ==
    \/ horizon <= 10 /\ severity >= 20 * SevUnit
    \/ horizon > 10 /\ horizon <= 30 /\ severity >= 40 * SevUnit
    \/ horizon > 30 /\ severity >= 70 * SevUnit

\* C5 as stated: every pipeline variant that decides whether to rebalance
\* passes exactly when the bracket does.
C5_EveryVariantUsesBracket ==
    (pc \in {"rebalancing", "stopped"} /\ passed # NoValue) =>
        (passed = "yes" <=> Bracket(impact, horizon_years))

\* C5 amended: the gate of the two v2.4 variants passes exactly when
\* horizon <= 1 and severity >= 20, or 1 < horizon <= 3 and severity >= 40, or
\* horizon > 3 and severity >= 70; the v2.1 pipeline does not use the bracket:
\* it passes exactly when impact >= 25, whatever the horizon.  A run goes on to
\* the rebalance step exactly when its gate passed.
C5_GateDecision ==
    (pc \in {"rebalancing", "stopped"} /\ passed # NoValue) =>
        /\ (variant \in {"v24lex", "v24emb"}) =>
                (passed = "yes" <=> Bracket(impact, horizon_years))
        /\ (variant = "v21") => (passed = "yes" <=> impact >= 25 * SevUnit)
        /\ (pc = "rebalancing" <=> passed = "yes")

\* severity 19.99 at horizon 1.0 was refused by the horizon gate
C5_Witness ==
    /\ variant = "v24lex"
    /\ impact = 199900
    /\ horizon_years = 10
    /\ pc = "stopped"
    /\ passed = "no"

\* C6: severity is always inside its declared range: [0,100] for the v2.1
\* scorer, [20,100] for the v2.4 lexical and embedding scorers, so that the
\* intensity severity/100 lies in [0,1].
C6_SeverityInRange ==
    (pc = "analyzed") =>
        /\ (variant = "v21") => (0 <= impact /\ impact <= 100 * SevUnit)
        /\ (variant \in {"v24lex", "v24emb"}) =>
                (20 * SevUnit <= impact /\ impact <= 100 * SevUnit)
        /\ 0 <= impact /\ impact <= 100 * SevUnit

\* the keywords of a headline add up to more than 100 and the score is 100
C6_Witness ==
    /\ pc = "analyzed"
    /\ variant = "v24lex"
    /\ ScoreSum_v24(1, lower(headline)) > 100 * SevUnit
    /\ impact = 100 * SevUnit

IrrelevantWords ==
    {"accident", "celebrity", "movie", "festival", "sports", "award", "weather", "crime"}

HasIrrelevantWord(text) == \E w \in IrrelevantWords : In(w, lower(text))

\* C7: in the lexical classifier a headline containing any irrelevant keyword
\* as a substring is tier irrelevant, whatever micro or macro keywords it holds.
C7_IrrelevantFirst ==
    (pc = "analyzed" /\ variant \in Lexical /\ HasIrrelevantWord(headline)) =>
        event_type = "irrelevant"

\* a headline with an irrelevant and a macro keyword was classified
C7_Witness ==
    /\ pc = "analyzed"
    /\ variant = "v21"
    /\ In("celebrity", lower(headline))
    /\ In("oil", lower(headline))
    /\ event_type = "irrelevant"

ThemeOrder == <<"earnings", "company_specific", "sector_only", "interest_rate",
                "energy", "tech", "geopolitical", "fiscal", "currency", "labor",
                "crypto", "political_shock">>

ThemeTable(v) ==
    IF v = "v21" THEN micro_themes_v21 \o macro_themes_v21
    ELSE micro_themes_v24 \o macro_themes_v24

\* C8: in the lexical classifier, when no irrelevant keyword matches, the
\* result is the first theme of the fixed order earnings, company_specific,
\* sector_only, interest_rate, energy, tech, geopolitical, fiscal, currency,
\* labor, crypto, political_shock with a keyword in the lower-cased headline
\* (micro for the first three, macro for the rest); with no match, irrelevant.
C8_FirstThemeInOrder ==
    (pc = "analyzed" /\ variant \in Lexical /\ ~HasIrrelevantWord(headline)) =>
        LET t == lower(headline)
            table == ThemeTable(variant)
            hit == {i \in 1..Len(ThemeOrder) : AnyIn(table[i].words, t)}
        IN  /\ Len(table) = Len(ThemeOrder)
            /\ \A i \in 1..Len(ThemeOrder) : table[i].key = ThemeOrder[i]
            /\ IF hit = {} THEN event_type = "irrelevant"
               ELSE \E i \in hit :
                       /\ \A j \in hit : i <= j
                       /\ theme = ThemeOrder[i]
                       /\ event_type = IF i <= 3 THEN "micro" ELSE "macro"

\* a headline with both "oil" and "inflation" was classified interest_rate
C8_Witness ==
    /\ pc = "analyzed"
    /\ variant = "v24lex"
    /\ In("oil", lower(headline))
    /\ In("inflation", lower(headline))
    /\ event_type = "macro"
    /\ theme = "interest_rate"

InvalidPortfolio == variant \in Weighted /\ SumOver(initial_weights, AssetSet) # 100

\* C9: a portfolio whose weights do not sum to 100 is rejected before analysis:
\* in every variant that takes user weights no step classifies, scores or
\* rebalances for it, and its weights are never changed.
C9_InvalidPortfolioRejected ==
    [][InvalidPortfolio =>
            /\ initial_weights' = initial_weights
            /\ pc' \in {"start", "rejected"}
            /\ sims' = Nothing
            /\ event_type' = NoValue
            /\ theme' = NoValue
            /\ impact' = NoScore
            /\ passed' = NoValue
            /\ updated' = NoPortfolio]_vars

\* a portfolio totalling 110 was rejected, in a rerun too
C9_Witness ==
    /\ InvalidPortfolio
    /\ initial_weights = Portfolio(30, 20, 20, 20, 20)
    /\ pc = "rejected"
    /\ runs > 1

\* C10: two runs of the same keyword-based variant on the same headline and
\* portfolio produce the same theme and the same suggested weights, also for a
\* headline that matches no keyword.
C10_RunsAgree ==
    (variant \in {"v01", "v21", "v24lex"} /\ runs > 1 /\ pc \in Terminal) =>
        /\ pc = prev.pc
        /\ theme = prev.theme
        /\ updated = prev.updated

InterestRateApplied == pc = "done" /\ theme \in InterestThemes /\ impact > 0

\* the horizon-aware lexical run on equal 20% weights, horizon 1.0
FedScenario ==
    /\ variant = "v24lex"
    /\ headline = "Federal Reserve raises rates by 0.5%"
    /\ initial_weights = Portfolio(20, 20, 20, 20, 20)
    /\ horizon_years = 10

BondsUpEquitiesDown ==
    /\ updated.Bonds > 100 * initial_weights.Bonds
    /\ updated.Equities < 100 * initial_weights.Equities

FedScenarioOutcome ==
    /\ pc \in {"analyzed", "rebalancing", "done"} => event_type = "macro" /\ theme = "interest_rate"
    /\ pc # "stopped"
    /\ pc \in {"rebalancing", "done"} => passed = "yes"
    /\ pc = "done" => updated.Bonds > 20 * 100 /\ updated.Equities < 20 * 100

\* C11 as stated: whenever the interest-rate rule is applied with intensity > 0
\* to a portfolio summing to 100, Bonds ends strictly above and Equities
\* strictly below its input weight and the total stays 100; the scenario run
\* classifies macro / interest_rate, passes the gate and yields Bonds > 20 and
\* Equities < 20.
C11_TotalStaysHundred ==
    /\ InterestRateApplied => (BondsUpEquitiesDown /\ OutputTotal = 100 * 100)
    /\ FedScenario => FedScenarioOutcome

\* C11 amended: as stated, except that the total stays 100 only up to the
\* rounding residue of the five weights, at most 0.02; it is exactly 100 in
\* the scenario run.
C11_BondsUpEquitiesDown ==
    /\ InterestRateApplied =>
            (BondsUpEquitiesDown /\ Abs(OutputTotal - 100 * 100) <= 2)
    /\ FedScenario =>
            (FedScenarioOutcome /\ (pc = "done" => OutputTotal = 100 * 100))

\* the scenario run reached its rebalanced portfolio
C11_Witness ==
    /\ FedScenario
    /\ pc = "done"
    /\ theme = "interest_rate"
    /\ updated.Bonds = 2200
    /\ updated.Equities = 1800

\* C12: a call of apply_rebalance or generate_suggested_portfolio never mutates
\* its input: across the call, with any theme and intensity, the caller's
\* weights hold the same values as before, and the mapping returned is an
\* object of its own, not the caller's.
C12_InputNotMutated ==
    [][pc = "rebalancing" =>
            /\ initial_weights' = initial_weights
            /\ result_ref' # NoRef
            /\ result_ref' # base_ref]_vars

\* a rule moved the weights of the returned mapping and the caller's are as entered
C12_Witness ==
    /\ pc = "done"
    /\ variant = "v21"
    /\ theme = "interest_rate"
    /\ initial_weights = Portfolio(20, 20, 20, 20, 20)
    /\ updated # Copy(initial_weights)
    /\ result_ref # base_ref

\* place of a theme in the iteration order of the theme table
Position(t) == CHOOSE i \in 1..Len(THEMES) : THEMES[i] = t

\* the themes, other than p, whose similarity exceeds 0.75 times that of p
Stronger(s, p) == {t \in ThemeSet \ {p} : 4 * s[t] > 3 * s[p]}

\* C13: in the embedding classifier the primary theme is a theme of maximum
\* similarity, and the secondary theme is the last theme in the theme iteration
\* order, other than the primary, whose similarity is strictly greater than
\* 0.75 times the primary's; when no other theme qualifies the secondary is
\* absent and its score is 0.
C13_SecondaryIsLastQualifying ==
    (pc = "analyzed" /\ variant = "v24emb") =>
        /\ theme \in ThemeSet
        /\ \A t \in ThemeSet : sims[t] <= sims[theme]
        /\ IF Stronger(sims, theme) = {}
           THEN secondary = <<NoValue, 0>>
           ELSE \E t \in Stronger(sims, theme) :
                   /\ \A u \in Stronger(sims, theme) : Position(u) <= Position(t)
                   /\ secondary = <<t, sims[t]>>

\* several themes qualify and the last in order wins over a more similar one
C13_Witness ==
    /\ pc = "analyzed"
    /\ variant = "v24emb"
    /\ theme = "energy"
    /\ sims["tech"] = 70
    /\ sims["commodities"] = 65
    /\ secondary = <<"commodities", 65>>

\* one percent in the unit of the weights before rounding
Percent == 100 * SevUnit

RuleThemes(v) ==
    IF v = "v21" THEN DOMAIN macro_rebalance_rules_v21
    ELSE IF v = "v24lex" THEN DOMAIN macro_rebalance_rules_v24
    ELSE DOMAIN rebalance_rules

\* total = sum(new.values()) of the call made from this state
PostRuleTotal == SumOver(NewOf(variant, initial_weights, theme, impact), AssetSet)

\* C14: the renormalisation divisor is always strictly positive: for every
\* portfolio with weights in 0..100 summing to 100, every theme of the rule
\* table and every intensity in [0,1], the post-rule total of apply_rebalance
\* lies between 95 and 115, so the division is never by zero or by a negative
\* number.
C14_DivisorInRange ==
    (pc \in {"rebalancing", "done"} /\ variant \in Weighted
            /\ theme \in RuleThemes(variant)) =>
        /\ 95 * Percent <= PostRuleTotal
        /\ PostRuleTotal <= 115 * Percent
        /\ PostRuleTotal > 0

\* the currency rule applied at full intensity took the total down to 95
C14_Witness ==
    /\ pc = "done"
    /\ variant = "v21"
    /\ theme = "currency"
    /\ impact = 100 * SevUnit
    /\ PostRuleTotal = 95 * Percent
    /\ updated # Copy(initial_weights)

====
